---- MODULE Spec2Model ----
(***************************************************************************)
(* Model of model.py (jstzwj/DeepT): the PadFunction collator, the shifted *)
(* decoder input / labels of training_step and validation_step, and the    *)
(* two data loaders built by train_dataloader and val_dataloader.          *)
(*                                                                         *)
(* A 2-D tensor is a record [shape |-> <<rows, cols>>, data |-> rows of    *)
(* cells]; Python's 0-based column j is TLA+ index j + 1.                  *)
(***************************************************************************)
EXTENDS Integers, Sequences, FiniteSets, TLC

\* ------------------------------------------------------------ bounds
MaxLen == 2            \* longest token sequence of an example
Tokens == 0 .. 1       \* token ids that occur in examples
PadIds == 0 .. 1       \* pad ids a PadFunction is constructed with
BatchSizes == 0 .. 2   \* number of pairs handed to one collate call

VARIABLES
    pad_id,            \* PadFunction.pad_id
    batch,             \* the list of (source, target) pairs passed to __call__
    pc,                \* position of the modelled run
    source_tokens,     \* first element of _pad_fn's result
    target_tokens,     \* second element of _pad_fn's result
    prev_call,         \* what an earlier collate call returned for the side kept since
    step,              \* what training_step / validation_step computed
    loader             \* state of the data loader being iterated

vars == <<pad_id, batch, pc, source_tokens, target_tokens, prev_call, step, loader>>

\* ------------------------------------------------------------ values
None == <<>>                      \* Python's None (pad_size = None)
Some(x) == <<x>>

SeqsUpTo(S, n) == UNION {[1 .. k -> S] : k \in 0 .. n}
Sequences_ == SeqsUpTo(Tokens, MaxLen)
Examples == Sequences_ \X Sequences_
Batches == UNION {[1 .. n -> Examples] : n \in BatchSizes}

\* the sequence <<F(1), ..., F(n)>>
RECURSIVE Tabulate(_, _)
Tabulate(F(_), n) == IF n = 0 THEN <<>> ELSE Append(Tabulate(F, n - 1), F(n))

NoTensor == [shape |-> <<0, 0>>, data |-> <<>>]
NoTokens == [token_ids |-> NoTensor, mask |-> NoTensor]
NoStep == [kind |-> "none"]
NoLoader == [kind |-> "none"]

\* ------------------------------------------------------------ PadFunction
RECURSIVE maxFrom(_, _)
maxFrom(lengths, k) ==
    IF k = 1 THEN lengths[1]
    ELSE LET m == maxFrom(lengths, k - 1)
         IN  IF lengths[k] > m THEN lengths[k] ELSE m

\* Python's max over a non-empty list
max(lengths) == maxFrom(lengths, Len(lengths))

\* lengths = [len(seq) for seq in sequences]
lengths_of(sequences) == Tabulate(LAMBDA i : Len(sequences[i]), Len(sequences))

GlobalPadSize(lengths, pad_size) == MaxLen
AtLeastOnePadSize(lengths, pad_size) ==
    IF max(lengths) > 1 THEN max(lengths) ELSE 1
\* if pad_size is None: pad_size = max(lengths)
ResolvePadSize(lengths, pad_size) ==
    IF pad_size = None THEN max(lengths) ELSE pad_size[1]

ZeroFull(rows, cols, value) ==
    [shape |-> <<rows, cols>>,
     data |-> Tabulate(LAMBDA i : Tabulate(LAMBDA j : 0, cols), rows)]
\* torch.full((rows, cols), value)
full(rows, cols, value) ==
    [shape |-> <<rows, cols>>,
     data |-> Tabulate(LAMBDA i : Tabulate(LAMBDA j : value, cols), rows)]

ShiftedRowPrefix(t, i, end, seq) ==
    [t EXCEPT !.data[i] =
        Tabulate(LAMBDA j :
            IF j <= end /\ j + 1 <= Len(seq) THEN seq[j + 1] ELSE t.data[i][j],
            t.shape[2])]
\* padded_seqs[i, :end] = seq[:end]
SetRowPrefix(t, i, end, seq) ==
    [t EXCEPT !.data[i] =
        Tabulate(LAMBDA j : IF j <= end THEN seq[j] ELSE t.data[i][j], t.shape[2])]

\* for i, seq in enumerate(sequences): ...   (iterations 1 .. k)
RECURSIVE MergeLoop(_, _, _, _)
MergeLoop(padded, sequences, lengths, k) ==
    IF k = 0 THEN padded
    ELSE SetRowPrefix(MergeLoop(padded, sequences, lengths, k - 1),
                      k, lengths[k], sequences[k])

\* PadFunction.merge: returns <<padded_seqs, lengths>>
merge(self_pad_id, sequences, pad_size) ==
    LET lengths == lengths_of(sequences)
        size == ResolvePadSize(lengths, pad_size)
        padded_seqs == full(Len(lengths), size, self_pad_id)
    IN  <<MergeLoop(padded_seqs, sequences, lengths, Len(sequences)), lengths>>

\* torch.arange(max_len)
arange(max_len) == Tabulate(LAMBDA j : j - 1, max_len)

MaskFromTokens(self_pad_id, inputs, inputs_length) ==
    [shape |-> inputs.shape,
     data |-> Tabulate(LAMBDA i :
                 Tabulate(LAMBDA j : inputs.data[i][j] # self_pad_id, inputs.shape[2]),
                 inputs.shape[1])]
\* PadFunction.make_mask:
\* arange(max_len).expand(len(inputs_length), max_len) < tensor(inputs_length).unsqueeze(1)
make_mask(self_pad_id, inputs, inputs_length) ==
    LET max_len == inputs.shape[2]
        rows == Len(inputs_length)
    IN  [shape |-> <<rows, max_len>>,
         data |-> Tabulate(LAMBDA i :
                     Tabulate(LAMBDA j : arange(max_len)[j] < inputs_length[i], max_len),
                     rows)]

\* insertion of pair p into a list kept in descending order of len(p[0])
RECURSIVE SortedByLength(_)
SortedByLength(b) ==
    IF Len(b) <= 1 THEN b
    ELSE LET rest == SortedByLength(Tail(b))
             p == Head(b)
             before == SelectSeq(rest, LAMBDA q : Len(q[1]) > Len(p[1]))
             after == SelectSeq(rest, LAMBDA q : Len(q[1]) <= Len(p[1]))
         IN  before \o <<p>> \o after

SortedUnzip(b) ==
    LET s == SortedByLength(b)
    IN  <<Tabulate(LAMBDA i : s[i][1], Len(s)), Tabulate(LAMBDA i : s[i][2], Len(s))>>
\* src_seqs, trg_seqs = tuple(zip(*batch))
Unzip(b) ==
    <<Tabulate(LAMBDA i : b[i][1], Len(b)), Tabulate(LAMBDA i : b[i][2], Len(b))>>

JointPadSize(src_seqs, trg_seqs) ==
    Some(max(lengths_of(src_seqs) \o lengths_of(trg_seqs)))
\* pad_size = None
pad_size_of(src_seqs, trg_seqs) == None

\* PadFunction._pad_fn on a non-empty batch: <<source_tokens, target_tokens>>
_pad_fn(self_pad_id, b) ==
    LET seqs == Unzip(b)
        pad_size == pad_size_of(seqs[1], seqs[2])
        src == merge(self_pad_id, seqs[1], pad_size)
        trg == merge(self_pad_id, seqs[2], pad_size)
    IN  <<[token_ids |-> src[1], mask |-> make_mask(self_pad_id, src[1], src[2])],
          [token_ids |-> trg[1], mask |-> make_mask(self_pad_id, trg[1], trg[2])]>>

\* zip(*batch) of an empty list yields nothing to unpack: ValueError
Raises(b) == Len(b) = 0

\* ------------------------------------------------------------ collate run
InitPad ==
    /\ pad_id \in PadIds
    /\ batch \in Batches
    /\ pc = "call"
    /\ source_tokens = NoTokens
    /\ target_tokens = NoTokens
    /\ prev_call = None
    /\ step = NoStep
    /\ loader = NoLoader

\* PadFunction.__call__(batch) returning normally
Call ==
    /\ pc = "call"
    /\ ~Raises(batch)
    /\ LET r == _pad_fn(pad_id, batch)
       IN  /\ source_tokens' = r[1]
           /\ target_tokens' = r[2]
    /\ pc' = "done"
    /\ UNCHANGED <<pad_id, batch, prev_call, step, loader>>

\* PadFunction.__call__(batch) raising
CallRaises ==
    /\ pc = "call"
    /\ Raises(batch)
    /\ pc' = "error"
    /\ UNCHANGED <<pad_id, batch, source_tokens, target_tokens, prev_call, step, loader>>

\* ------------------------------------------------------------ training_step / validation_step
\* t[..., :-1]
DropLastCol(t) ==
    LET cols == IF t.shape[2] > 0 THEN t.shape[2] - 1 ELSE 0
    IN  [shape |-> <<t.shape[1], cols>>,
         data |-> Tabulate(LAMBDA i : Tabulate(LAMBDA j : t.data[i][j], cols), t.shape[1])]

\* t[..., 1:]
DropFirstCol(t) ==
    LET cols == IF t.shape[2] > 0 THEN t.shape[2] - 1 ELSE 0
    IN  [shape |-> <<t.shape[1], cols>>,
         data |-> Tabulate(LAMBDA i : Tabulate(LAMBDA j : t.data[i][j + 1], cols), t.shape[1])]

UnshiftedLabels(label_ids) == DropLastCol(label_ids)
\* shift_label_ids = label_ids[..., 1:].contiguous()
shift_labels(label_ids) == DropFirstCol(label_ids)

\* torch.nn.CrossEntropyLoss(ignore_index=...): the positions of the label tensor
\* whose term enters the loss are those whose label is not ignore_index
loss_fct(ignore_index, labels) ==
    {p \in (1 .. labels.shape[1]) \X (1 .. labels.shape[2]) :
        labels.data[p[1]][p[2]] # ignore_index}

\* body shared by training_step and validation_step; self.pad_token_id is the
\* tokenizer's pad id, the one both loaders construct PadFunction with
step_body(kind, pad_token_id, labels) ==
    LET label_ids == labels.token_ids
        label_mask == labels.mask
        decoder == [token_ids |-> DropLastCol(label_ids), mask |-> DropLastCol(label_mask)]
        shift_label_ids == shift_labels(label_ids)
    IN  [kind |-> kind,
         decoder_input |-> decoder,
         logits_shape |-> decoder.token_ids.shape,
         shift_label_ids |-> shift_label_ids,
         loss_positions |-> loss_fct(pad_token_id, shift_label_ids)]

\* BartForMaskedLM.training_step(batch, batch_idx) on a collated batch
training_step ==
    /\ pc = "done"
    /\ step' = step_body("training_step", pad_id, target_tokens)
    /\ pc' = "stepped"
    /\ UNCHANGED <<pad_id, batch, source_tokens, target_tokens, prev_call, loader>>

\* BartForMaskedLM.validation_step(batch, batch_idx) on a collated batch
validation_step ==
    /\ pc = "done"
    /\ step' = step_body("validation_step", pad_id, target_tokens)
    /\ pc' = "stepped"
    /\ UNCHANGED <<pad_id, batch, source_tokens, target_tokens, prev_call, loader>>

NextPad == Call \/ CallRaises \/ training_step \/ validation_step

Spec == InitPad /\ [][NextPad]_vars

\* ------------------------------------------------------------ claims on PadFunction
Returned == pc \in {"done", "stepped"}
Sides == {1, 2}
Out(k) == IF k = 1 THEN source_tokens ELSE target_tokens
\* L_i of side k: the length of the i-th input sequence of that side
L(k, i) == Len(batch[i][k])
IsMaxLength(k, w) ==
    /\ \A i \in 1 .. Len(batch) : L(k, i) <= w
    /\ \E i \in 1 .. Len(batch) : L(k, i) = w

\* C1: for a non-empty batch and each side, token_ids has N rows and its width
\* is the maximum of that side's sequence lengths.
C1_WidthIsBatchMax ==
    (Returned /\ Len(batch) >= 1) =>
        \A k \in Sides :
            /\ Out(k).token_ids.shape[1] = Len(batch)
            /\ Len(Out(k).token_ids.data) = Len(batch)
            /\ \A i \in 1 .. Len(batch) :
                   Len(Out(k).token_ids.data[i]) = Out(k).token_ids.shape[2]
            /\ IsMaxLength(k, Out(k).token_ids.shape[2])

\* a two-pair batch whose width is below the global maximum and above a row's length
C1_Witness ==
    /\ pc = "done"
    /\ Len(batch) = 2
    /\ source_tokens.token_ids.shape = <<2, 1>>
    /\ L(1, 1) = 0
    /\ target_tokens.token_ids.shape = <<2, 2>>

\* C2: the mask has the shape of token_ids and mask[i][j] is true iff j < L_i,
\* whatever the token values are.
C2_MaskIffBelowLength ==
    Returned =>
        \A k \in Sides :
            /\ Out(k).mask.shape = Out(k).token_ids.shape
            /\ Len(Out(k).mask.data) = Out(k).mask.shape[1]
            /\ \A i \in 1 .. Len(batch) :
                /\ Len(Out(k).mask.data[i]) = Out(k).mask.shape[2]
                /\ \A j \in 0 .. Out(k).mask.shape[2] - 1 :
                       Out(k).mask.data[i][j + 1] <=> (j < L(k, i))

\* a real token equal to the pad id sits inside a sequence, and a padded cell exists
C2_Witness ==
    /\ pc = "done"
    /\ \E i \in 1 .. Len(batch) : \E j \in 1 .. L(2, i) :
           /\ batch[i][2][j] = pad_id
           /\ target_tokens.mask.data[i][j]
    /\ \E i \in 1 .. Len(batch) :
           /\ L(2, i) < target_tokens.mask.shape[2]
           /\ ~target_tokens.mask.data[i][target_tokens.mask.shape[2]]

\* C3: every cell at a column j with L_i <= j < width holds the pad id.
C3_PaddingIsPadId ==
    Returned =>
        \A k \in Sides : \A i \in 1 .. Len(batch) :
            \A j \in L(k, i) .. Out(k).token_ids.shape[2] - 1 :
                Out(k).token_ids.data[i][j + 1] = pad_id

\* a padded cell under a non-default pad id
C3_Witness ==
    /\ pc = "done"
    /\ pad_id = 1
    /\ \E i \in 1 .. Len(batch) :
           /\ L(1, i) < source_tokens.token_ids.shape[2]
           /\ source_tokens.token_ids.data[i][L(1, i) + 1] = 1

\* C4: every cell at a column j < L_i holds the j-th token of the i-th input
\* sequence; no sequence is truncated.
C4_SequenceCopied ==
    Returned =>
        \A k \in Sides : \A i \in 1 .. Len(batch) :
            /\ L(k, i) <= Out(k).token_ids.shape[2]
            /\ \A j \in 0 .. L(k, i) - 1 :
                   Out(k).token_ids.data[i][j + 1] = batch[i][k][j + 1]

\* two rows of different lengths with different tokens, both copied
C4_Witness ==
    /\ pc = "done"
    /\ Len(batch) = 2
    /\ batch[1][1] = <<1, 0>>
    /\ batch[2][1] = <<1>>
    /\ source_tokens.token_ids.data = <<<<1, 0>>, <<1, pad_id>>>>

AllEmpty(k) == \A i \in 1 .. Len(batch) : L(k, i) = 0

\* C6: with N >= 1 pairs and every sequence of a side empty, the call returns
\* and that side's token_ids and mask have N rows and zero width.
C6_AllEmptyZeroWidth ==
    \A k \in Sides :
        (Len(batch) >= 1 /\ AllEmpty(k)) =>
            /\ pc # "error"
            /\ Returned =>
                /\ Out(k).token_ids.shape = <<Len(batch), 0>>
                /\ Out(k).mask.shape = <<Len(batch), 0>>
                /\ Out(k).token_ids.data = Tabulate(LAMBDA i : <<>>, Len(batch))
                /\ Out(k).mask.data = Tabulate(LAMBDA i : <<>>, Len(batch))

\* both sides all empty in a two-pair batch, collated
C6_Witness ==
    /\ pc = "done"
    /\ Len(batch) = 2
    /\ AllEmpty(1)
    /\ AllEmpty(2)
    /\ source_tokens.token_ids.shape = <<2, 0>>

RowFollowsInput(k, i) ==
    /\ SubSeq(Out(k).token_ids.data[i], 1, L(k, i)) = batch[i][k]
    /\ \A j \in 1 .. Out(k).mask.shape[2] : Out(k).mask.data[i][j] <=> (j <= L(k, i))

\* C10: row i of the source output and row i of the target output both come
\* from the i-th pair of the input list, and the call leaves the input unchanged.
C10_OrderKeptInputUnchanged ==
    [][(pc = "call" /\ pc' = "done") =>
          /\ batch' = batch
          /\ (\A i \in 1 .. Len(batch) :
                 L(1, i) <= source_tokens'.token_ids.shape[2] /\
                 L(2, i) <= target_tokens'.token_ids.shape[2] /\
                 SubSeq(source_tokens'.token_ids.data[i], 1, L(1, i)) = batch[i][1] /\
                 SubSeq(target_tokens'.token_ids.data[i], 1, L(2, i)) = batch[i][2] /\
                 (\A j \in 1 .. source_tokens'.mask.shape[2] :
                     source_tokens'.mask.data[i][j] <=> (j <= L(1, i))) /\
                 (\A j \in 1 .. target_tokens'.mask.shape[2] :
                     target_tokens'.mask.data[i][j] <=> (j <= L(2, i))))]_vars

\* a batch whose first pair has the shorter source: a sort by length would move it
C10_Witness ==
    /\ pc = "done"
    /\ Len(batch) = 2
    /\ L(1, 1) < L(1, 2)
    /\ L(2, 1) > L(2, 2)
    /\ RowFollowsInput(1, 1)
    /\ RowFollowsInput(2, 2)

\* ------------------------------------------------------------ claims on the steps
W == target_tokens.token_ids.shape[2]
Shifted == IF W > 0 THEN W - 1 ELSE 0

\* decoder input = columns 0..W-2 of token_ids and mask, labels = columns 1..W-1,
\* both of the shape of the logits
StepSlices ==
    /\ step.decoder_input.token_ids.shape = <<Len(batch), Shifted>>
    /\ step.decoder_input.mask.shape = <<Len(batch), Shifted>>
    /\ step.shift_label_ids.shape = step.decoder_input.token_ids.shape
    /\ step.logits_shape = step.shift_label_ids.shape
    /\ \A i \in 1 .. Len(batch) :
        /\ Len(step.decoder_input.token_ids.data[i]) = Shifted
        /\ Len(step.decoder_input.mask.data[i]) = Shifted
        /\ Len(step.shift_label_ids.data[i]) = Shifted
        /\ \A j \in 0 .. W - 2 :
            /\ step.decoder_input.token_ids.data[i][j + 1] = target_tokens.token_ids.data[i][j + 1]
            /\ step.decoder_input.mask.data[i][j + 1] = target_tokens.mask.data[i][j + 1]
            /\ step.shift_label_ids.data[i][j + 1] = target_tokens.token_ids.data[i][j + 2]
    /\ step.loss_positions \subseteq (1 .. Len(batch)) \X (1 .. Shifted)

\* C7 as stated: decoder input and labels are the two shifted slices of the
\* target batch, and position (i, j) enters the loss iff j + 1 < L_i.
C7_LossIffBelowLength ==
    pc = "stepped" =>
        /\ StepSlices
        /\ \A i \in 1 .. Len(batch) : \A j \in 0 .. W - 2 :
               (<<i, j + 1>> \in step.loss_positions) <=> (j + 1 < L(2, i))

\* C7 as amended: decoder input and labels are the two shifted slices of the
\* target batch; position (i, j) enters the loss iff target token j + 1 of row i
\* differs from the pad id, so no padding position (j + 1 >= L_i) enters it.
C7_LossIffLabelNotPad ==
    pc = "stepped" =>
        /\ StepSlices
        /\ \A i \in 1 .. Len(batch) : \A j \in 0 .. W - 2 :
            /\ (<<i, j + 1>> \in step.loss_positions)
                   <=> (target_tokens.token_ids.data[i][j + 2] # pad_id)
            /\ (j + 1 >= L(2, i)) => (<<i, j + 1>> \notin step.loss_positions)
            /\ (j + 1 < L(2, i) /\ batch[i][2][j + 2] # pad_id)
                   => (<<i, j + 1>> \in step.loss_positions)

\* a step on a batch with a scored position and an unscored one whose label is
\* a real token equal to the pad id
C7_Witness ==
    /\ pc = "stepped"
    /\ Len(batch) = 2
    /\ W = 2
    /\ <<1, 1>> \in step.loss_positions
    /\ L(2, 2) = 2
    /\ batch[2][2][2] = pad_id
    /\ <<2, 1>> \notin step.loss_positions

\* ------------------------------------------------------------ two collate calls
\* The widths do not depend on the token values, so the runs of two calls draw
\* their sequences over one token value (which is the pad id when pad_id = 1).
IndepSequences == SeqsUpTo({1}, MaxLen)

\* A second call of the same PadFunction on a batch that agrees with the first
\* on side k and differs in one sequence of the other side.
Recollate(k) ==
    /\ pc = "done"
    /\ prev_call = None
    /\ \E i \in 1 .. Len(batch) : \E t \in IndepSequences :
        /\ t # batch[i][3 - k]
        /\ batch' = [batch EXCEPT ![i] = IF k = 1 THEN <<batch[i][1], t>> ELSE <<t, batch[i][2]>>]
    /\ prev_call' = Some([side |-> k, tokens |-> Out(k)])
    /\ pc' = "call"
    /\ UNCHANGED <<pad_id, source_tokens, target_tokens, step, loader>>

NextIndep == Call \/ CallRaises \/ Recollate(1) \/ Recollate(2)

InitIndep ==
    /\ pad_id \in PadIds
    /\ batch \in UNION {[1 .. n -> IndepSequences \X IndepSequences] : n \in BatchSizes}
    /\ pc = "call"
    /\ source_tokens = NoTokens
    /\ target_tokens = NoTokens
    /\ prev_call = None
    /\ step = NoStep
    /\ loader = NoLoader

SpecIndep == InitIndep /\ [][NextIndep]_vars

\* C5: the output of a side depends only on that side's sequences: a second
\* batch with the same sequences on one side and different ones on the other
\* gives the identical output for the side kept.
C5_SidesIndependent ==
    (pc = "done" /\ prev_call # None) =>
        Out(prev_call[1].side) = prev_call[1].tokens

\* the second call has returned with the source side kept, its target side now
\* wider than the source side
C5_Witness ==
    /\ pc = "done"
    /\ prev_call # None
    /\ prev_call[1].side = 1
    /\ source_tokens = prev_call[1].tokens
    /\ source_tokens.token_ids.shape[2] = 1
    /\ target_tokens.token_ids.shape[2] = 2

\* ------------------------------------------------------------ data loaders
batch_size == 8        \* self.batch_size
num_workers_valid == 4 \* DataLoader(valid_dataset, num_workers=4, ...)
prefetch_factor == 2   \* DataLoader's default, not overridden by the call
MaxValidLen == 65      \* largest validation dataset

Min(a, b) == IF a < b THEN a ELSE b

ReversedSampler(n) == Tabulate(LAMBDA i : n - i, n)
\* torch.utils.data.SequentialSampler(valid_dataset): iter(range(len(data_source)))
SequentialSampler(n) == Tabulate(LAMBDA i : i - 1, n)

\* BatchSampler(sampler, batch_size, drop_last=False): the next batch of indices
\* of the index stream `order` from position pos (0-based), <<>> when exhausted
NextIndexBatch(order, pos) ==
    SubSeq(order, pos + 1, Min(pos + batch_size, Len(order)))

\* the worker's fetch: [dataset[i] for i in indices], handed to collate_fn; an
\* example is identified with its index in the dataset
fetch(indices) == indices

\* _MultiProcessingDataLoaderIter._try_put_index
TryPutIndex(ld) ==
    LET index == NextIndexBatch(ld.order, ld.sampler_pos)
        w == ld.worker_cycle
    IN  IF index = <<>> THEN ld
        ELSE [ld EXCEPT
                !.index_queues[w] = Append(@, [idx |-> ld.send_idx, index |-> index]),
                !.worker_cycle = (w % ld.num_workers) + 1,
                !.sampler_pos = @ + Len(index),
                !.tasks_outstanding = @ + 1,
                !.send_idx = @ + 1]

RECURSIVE Prime(_, _)
\* for _ in range(prefetch_factor * num_workers): self._try_put_index()
Prime(ld, k) == IF k = 0 THEN ld ELSE TryPutIndex(Prime(ld, k - 1))

\* _process_data: self._rcvd_idx += 1; self._try_put_index(); return data
ProcessData(ld, data) ==
    TryPutIndex([ld EXCEPT !.rcvd_idx = @ + 1, !.delivered = Append(@, data)])

\* val_dataloader(): the DataLoader over the validation dataset
ValidLoader(n) ==
    [kind |-> "valid",
     state |-> "constructed",
     dataset_len |-> n,
     num_workers |-> num_workers_valid,
     order |-> SequentialSampler(n),
     sampler_pos |-> 0,
     index_queues |-> [w \in 1 .. num_workers_valid |-> <<>>],
     worker_result_queue |-> <<>>,
     data_queue |-> <<>>,
     task_info |-> {},
     worker_cycle |-> 1,
     tasks_outstanding |-> 0,
     send_idx |-> 0,
     rcvd_idx |-> 0,
     delivered |-> <<>>]

\* dataset sizes at and just past a multiple of the batch size
ValidLens == {n \in 0 .. MaxValidLen : n % batch_size <= 2}

InitValid ==
    /\ pad_id \in PadIds
    /\ batch = <<>>
    /\ pc = "loading"
    /\ source_tokens = NoTokens
    /\ target_tokens = NoTokens
    /\ prev_call = None
    /\ step = NoStep
    /\ \E n \in ValidLens : loader = ValidLoader(n)

\* iter(loader): the iterator starts its workers and primes their index queues
Iter ==
    /\ loader.state = "constructed"
    /\ loader' = Prime([loader EXCEPT !.state = "iterating"],
                       prefetch_factor * loader.num_workers)
    /\ UNCHANGED <<pad_id, batch, pc, source_tokens, target_tokens, prev_call, step>>

\* worker w's loop body: take a task from its index queue, fetch and collate the
\* batch, put it on the result queue
WorkerFetch(w) ==
    /\ loader.state = "iterating"
    /\ loader.index_queues[w] # <<>>
    /\ LET r == Head(loader.index_queues[w])
       IN  loader' = [loader EXCEPT
                        !.index_queues[w] = Tail(@),
                        !.worker_result_queue = Append(@, [idx |-> r.idx, data |-> fetch(r.index)])]
    /\ UNCHANGED <<pad_id, batch, pc, source_tokens, target_tokens, prev_call, step>>

\* pin_memory=True: the pin-memory thread moves results to the data queue
PinMemory ==
    /\ loader.state = "iterating"
    /\ loader.worker_result_queue # <<>>
    /\ loader' = [loader EXCEPT
                    !.worker_result_queue = Tail(@),
                    !.data_queue = Append(@, Head(loader.worker_result_queue))]
    /\ UNCHANGED <<pad_id, batch, pc, source_tokens, target_tokens, prev_call, step>>

Cached(ld) == {c \in ld.task_info : c.idx = ld.rcvd_idx}

\* _next_data: the batch of _rcvd_idx arrived earlier and is returned
NextCached ==
    /\ loader.state = "iterating"
    /\ Cached(loader) # {}
    /\ LET c == CHOOSE c \in Cached(loader) : TRUE
       IN  loader' = ProcessData([loader EXCEPT !.task_info = @ \ {c}], c.data)
    /\ UNCHANGED <<pad_id, batch, pc, source_tokens, target_tokens, prev_call, step>>

\* _next_data: one result is taken from the data queue; it is returned if it is
\* the batch of _rcvd_idx and kept in _task_info otherwise
NextGet ==
    /\ loader.state = "iterating"
    /\ Cached(loader) = {}
    /\ loader.rcvd_idx < loader.send_idx
    /\ loader.data_queue # <<>>
    /\ LET r == Head(loader.data_queue)
           got == [loader EXCEPT !.data_queue = Tail(@), !.tasks_outstanding = @ - 1]
       IN  loader' = IF r.idx # loader.rcvd_idx
                     THEN [got EXCEPT !.task_info = @ \cup {r}]
                     ELSE ProcessData(got, r.data)
    /\ UNCHANGED <<pad_id, batch, pc, source_tokens, target_tokens, prev_call, step>>

\* _next_data: every task sent was returned: StopIteration ends the epoch
NextStop ==
    /\ loader.state = "iterating"
    /\ loader.rcvd_idx >= loader.send_idx
    /\ loader' = [loader EXCEPT !.state = "exhausted"]
    /\ UNCHANGED <<pad_id, batch, pc, source_tokens, target_tokens, prev_call, step>>

NextValid ==
    \/ Iter
    \/ \E w \in 1 .. num_workers_valid : WorkerFetch(w)
    \/ PinMemory
    \/ NextCached
    \/ NextGet
    \/ NextStop

SpecValid == InitValid /\ [][NextValid]_vars

\* the k-th batch (k = 0, 1, ...) of a dataset of n examples read in index order
ExpectedBatch(k, n) ==
    Tabulate(LAMBDA i : batch_size * k + i - 1, Min(batch_size, n - batch_size * k))

\* C8: the validation loader delivers batch k = the examples 8k .. 8k+7 in that
\* order (the last batch may be shorter), batches in increasing k, every example
\* exactly once by the end of the epoch, however the workers interleave.
C8_ValidSequential ==
    loader.kind = "valid" =>
        /\ Len(loader.delivered) = loader.rcvd_idx
        /\ \A k \in 1 .. Len(loader.delivered) :
               /\ loader.delivered[k] # <<>>
               /\ loader.delivered[k] = ExpectedBatch(k - 1, loader.dataset_len)
        /\ loader.state = "exhausted" =>
               /\ batch_size * Len(loader.delivered) >= loader.dataset_len
               /\ batch_size * Len(loader.delivered) < loader.dataset_len + batch_size

\* batches were delivered in order while a later batch, finished early by its
\* worker, waits; the dataset ends in a short batch
C8_Witness ==
    /\ loader.kind = "valid"
    /\ Len(loader.delivered) >= 2
    /\ \E c \in loader.task_info : c.idx > loader.rcvd_idx
    /\ loader.dataset_len % batch_size # 0

\* ------------------------------------------------------------ training loader
NumCorpora == 7        \* datasets given to ConcatDataset
SampleDivisor == 100   \* num_samples=len(dataset)//100
CorpusLen == 130       \* number of examples of a non-empty training corpus

RECURSIVE SumFrom(_, _)
SumFrom(lens, k) == IF k = 0 THEN 0 ELSE SumFrom(lens, k - 1) + lens[k]
\* len(torch.utils.data.ConcatDataset([...])): the sum of the corpora's lengths
ConcatLen(lens) == SumFrom(lens, Len(lens))

AllSamples(n) == n
\* num_samples=len(dataset)//100
NumSamples(n) == n \div SampleDivisor

\* RandomSampler(replacement=True) draws each index with torch.randint(high=n):
\* any of 0 .. n-1, whatever was drawn before
randint(high) == 0 .. high - 1

Bump(h) == IF h < 2 THEN h + 1 ELSE h

\* train_dataloader(): the DataLoader over the concatenated corpora. Of the
\* indices drawn the state keeps their number, whether all were indices of the
\* dataset, how often (0, 1, 2 = more than once) the first and the last example
\* were drawn, and the sizes of the batches formed.
TrainLoader(lens) ==
    [kind |-> "train",
     state |-> "constructing",
     dataset_len |-> ConcatLen(lens),
     num_samples |-> NumSamples(ConcatLen(lens)),
     drawn |-> 0,
     in_range |-> TRUE,
     hits |-> [first |-> 0, last |-> 0],
     cur_batch_len |-> 0,
     batch_sizes |-> <<>>]

InitTrain ==
    /\ pad_id \in PadIds
    /\ batch = <<>>
    /\ pc = "loading"
    /\ source_tokens = NoTokens
    /\ target_tokens = NoTokens
    /\ prev_call = None
    /\ step = NoStep
    /\ \E lens \in [1 .. NumCorpora -> {0, CorpusLen}] : loader = TrainLoader(lens)

\* RandomSampler.__init__ rejects num_samples <= 0 with ValueError
TrainRaises ==
    /\ loader.state = "constructing"
    /\ loader.num_samples <= 0
    /\ loader' = [loader EXCEPT !.state = "error"]
    /\ UNCHANGED <<pad_id, batch, pc, source_tokens, target_tokens, prev_call, step>>

\* the loader is returned and an epoch's iteration starts
TrainIter ==
    /\ loader.state = "constructing"
    /\ loader.num_samples > 0
    /\ loader' = [loader EXCEPT !.state = "iterating"]
    /\ UNCHANGED <<pad_id, batch, pc, source_tokens, target_tokens, prev_call, step>>

\* the batch sampler takes the sampler's next index; the batch is yielded when
\* it holds batch_size indices
Draw ==
    /\ loader.state = "iterating"
    /\ loader.drawn < loader.num_samples
    /\ \E idx \in randint(loader.dataset_len) :
        LET full_batch == loader.cur_batch_len + 1 = batch_size
        IN  loader' = [loader EXCEPT
                !.drawn = @ + 1,
                !.in_range = @ /\ idx >= 0 /\ idx < loader.dataset_len,
                !.hits = [first |-> IF idx = 0 THEN Bump(@.first) ELSE @.first,
                          last |-> IF idx = loader.dataset_len - 1 THEN Bump(@.last) ELSE @.last],
                !.cur_batch_len = IF full_batch THEN 0 ELSE @ + 1,
                !.batch_sizes = IF full_batch THEN Append(@, batch_size) ELSE @]
    /\ UNCHANGED <<pad_id, batch, pc, source_tokens, target_tokens, prev_call, step>>

\* the sampler is exhausted: drop_last=False yields the batch begun, if any
EndEpoch ==
    /\ loader.state = "iterating"
    /\ loader.drawn >= loader.num_samples
    /\ loader' = [loader EXCEPT
            !.state = "exhausted",
            !.cur_batch_len = 0,
            !.batch_sizes = IF loader.cur_batch_len > 0
                            THEN Append(@, loader.cur_batch_len) ELSE @]
    /\ UNCHANGED <<pad_id, batch, pc, source_tokens, target_tokens, prev_call, step>>

NextTrain == TrainRaises \/ TrainIter \/ Draw \/ EndEpoch

SpecTrain == InitTrain /\ [][NextTrain]_vars

\* C9: an epoch of the training loader draws exactly floor(len(dataset)/100)
\* indices, each from the whole index range of the concatenated dataset, and
\* groups them into batches of 8 with only the last possibly shorter.
C9_TrainSamples ==
    loader.kind = "train" =>
        /\ \E lens \in [1 .. NumCorpora -> {0, CorpusLen}] :
               loader.dataset_len = ConcatLen(lens)
        /\ loader.drawn <= loader.dataset_len \div SampleDivisor
        /\ loader.in_range
        /\ SumFrom(loader.batch_sizes, Len(loader.batch_sizes)) + loader.cur_batch_len
               = loader.drawn
        /\ loader.cur_batch_len < batch_size
        /\ \A k \in 1 .. Len(loader.batch_sizes) :
               \/ loader.batch_sizes[k] = batch_size
               \/ /\ k = Len(loader.batch_sizes)
                  /\ loader.state = "exhausted"
                  /\ loader.batch_sizes[k] \in 1 .. batch_size
        /\ loader.state = "exhausted" =>
               /\ loader.drawn = loader.dataset_len \div SampleDivisor
               /\ loader.cur_batch_len = 0

\* an epoch over all seven corpora has ended: one example was drawn more than
\* once, another never, and the last batch is shorter than 8
C9_Witness ==
    /\ loader.kind = "train"
    /\ loader.state = "exhausted"
    /\ loader.dataset_len = NumCorpora * CorpusLen
    /\ loader.hits.first = 2
    /\ loader.hits.last = 0
    /\ Len(loader.batch_sizes) = 2
    /\ loader.batch_sizes[1] = batch_size
    /\ loader.batch_sizes[2] < batch_size
====
